---- MODULE Spec2Model ----
(***************************************************************************)
(* Scheduler + Runner + State Store of the Arugot automation framework.    *)
(*                                                                         *)
(* Time is counted in whole minutes since the Unix epoch.  Cron fire times *)
(* are whole minutes, so for an instant t and a fire time b,               *)
(*     b > t  <=>  b > floor(t)      and      t >= b  <=>  floor(t) >= b,  *)
(* and flooring every datetime to its minute keeps every comparison the    *)
(* scheduler makes.  A timezone is a fixed offset from UTC (no DST).       *)
(***************************************************************************)
EXTENDS Integers, Sequences, FiniteSets, TLC

\* ------------------------------------------------------------------ bounds
\* The scheduler is observed for MaxElapsed minutes after process start.
MaxElapsed == 4
\* At most MaxRegistrations calls of register_job follow the constructor.
MaxRegistrations == 1
\* The CLI is invoked at most MaxCliRuns times over the same runtime root.
MaxCliRuns == 2
\* A direct user of the State Store makes at most MaxStoreCalls calls.
MaxStoreCalls == 3

\* ------------------------------------------------------------- time, zones
MinutesPerDay == 24 * 60

\* 2024-03-01T12:13:00Z: day 19783 since the epoch, 12 h 13 min into the day.
BootTime == 19783 * MinutesPerDay + 12 * 60 + 13

\* zoneinfo.ZoneInfo(name): the zone's UTC offset in minutes; an unknown key
\* raises ZoneInfoNotFoundError.
KnownZones == {"UTC", "America/New_York", "Asia/Kathmandu"}
Zones == KnownZones \cup {"Mars/Phobos"}

UtcOffset(tz) ==
    CASE tz = "UTC" -> 0
      [] tz = "America/New_York" -> 0 - 5 * 60
      [] tz = "Asia/Kathmandu" -> 5 * 60 + 45

\* An aware datetime: the instant and the zone its wall clock is read in.
\* datetime.now() is naive local time; astimezone() reads it as local time,
\* so the instant is the clock's.
DateTime(inst, tz) == [inst |-> inst, tz |-> tz]
Astimezone(dt, tz) == DateTime(dt.inst, tz)
Wall(dt) == dt.inst + UtcOffset(dt.tz)
\* datetime.fromtimestamp(0, tz=tz)
EpochIn(tz) == DateTime(0, tz)
\* dt.isoformat() of an aware datetime: the wall-clock time and the UTC
\* offset (as in 2024-03-01T07:13:00-05:00); the zone's name is not in it.
Isoformat(dt) == [wall |-> Wall(dt), utcoffset |-> UtcOffset(dt.tz)]

\* ------------------------------------------------------------------- cron
\* croniter: the 5-field expressions used here, by the wall-clock minutes
\* they match.  An expression croniter cannot parse raises.
ValidCrons == {"*/2 * * * *", "*/3 * * * *", "0 * * * *", "15,45 5-22 * * *"}
CronExprs == ValidCrons \cup {"every day"}

MinuteOfHour(w) == w % 60
HourOfDay(w) == (w \div 60) % 24

CronMatches(expr, w) ==
    CASE expr = "*/2 * * * *" -> MinuteOfHour(w) % 2 = 0
      [] expr = "*/3 * * * *" -> MinuteOfHour(w) % 3 = 0
      [] expr = "0 * * * *" -> MinuteOfHour(w) = 0
      [] expr = "15,45 5-22 * * *" ->
            /\ MinuteOfHour(w) \in {15, 45}
            /\ HourOfDay(w) \in 5..22

\* croniter(expr, start).get_next(datetime): the first matching wall-clock
\* minute strictly after start, in start's own zone.
CronGetNext(expr, start) ==
    LET w0 == Wall(start)
        w == CHOOSE x \in (w0 + 1)..(w0 + MinutesPerDay) :
                 /\ CronMatches(expr, x)
                 /\ \A y \in (w0 + 1)..(x - 1) : ~CronMatches(expr, y)
    IN DateTime(w - UtcOffset(start.tz), start.tz)

\* ------------------------------------------------------- values and JSON
\* A Python value: its type and, for a dict, its items (string key -> value).
PyNone == [t |-> "NoneType", v |-> <<>>]
PyInt(n) == [t |-> "int", v |-> <<n>>]
PyList == [t |-> "list", v |-> <<>>]
PyDict(m) == [t |-> "dict", v |-> m]
\* What calling an `async def run` yields: a suspended computation.
PyCoroutine == [t |-> "coroutine", v |-> <<>>]
\* A datetime object: a value the json encoder has no encoding for.
PyDatetime == [t |-> "datetime", v |-> <<>>]
EmptyDict == PyDict(<<>>)

\* A JSON document.
JNull == [t |-> "null", v |-> <<>>]
JNumber(n) == [t |-> "number", v |-> <<n>>]
JArray == [t |-> "array", v |-> <<>>]
JObject(m) == [t |-> "object", v |-> m]

\* Whether json.dump encodes the value; it raises TypeError when it meets
\* one it cannot encode.
JsonScalarTypes == {"NoneType", "int", "list", "dict"}
JsonSerializable(x) ==
    /\ x.t \in JsonScalarTypes
    /\ x.t = "dict" => \A k \in DOMAIN x.v : x.v[k].t \in JsonScalarTypes

\* json.dump of the values above (dict values are dumped one level down).
JsonDumpScalar(x) ==
    CASE x.t = "NoneType" -> JNull
      [] x.t = "int" -> JNumber(x.v[1])
      [] x.t = "list" -> JArray
      [] x.t = "dict" -> JObject(x.v)
\* Mutant: items whose value is None are left out of the document.
JsonDumpSkipsNone(x) ==
    IF x.t = "dict"
    THEN JObject([k \in {i \in DOMAIN x.v : x.v[i].t # "NoneType"} |->
                     JsonDumpScalar(x.v[k])])
    ELSE JsonDumpScalar(x)
JsonDump(x) ==
    IF x.t = "dict"
    THEN JObject([k \in DOMAIN x.v |-> JsonDumpScalar(x.v[k])])
    ELSE JsonDumpScalar(x)

\* json.load: the Python value of a document.
JsonLoadScalar(j) ==
    CASE j.t = "null" -> PyNone
      [] j.t = "number" -> PyInt(j.v[1])
      [] j.t = "array" -> PyList
      [] j.t = "object" -> PyDict(j.v)
JsonLoad(j) ==
    IF j.t = "object"
    THEN PyDict([k \in DOMAIN j.v |-> JsonLoadScalar(j.v[k])])
    ELSE JsonLoadScalar(j)

\* The mappings a workflow body returns in this model.
Mappings ==
    { PyDict([count |-> PyInt(1)]),
      PyDict([count |-> PyInt(2), seen |-> PyInt(1)]) }

\* ------------------------------------------------------------ State Store
\* A file: absent, text that is not JSON, or a JSON document.
Absent == [kind |-> "absent", doc |-> JNull]
Garbage == [kind |-> "garbage", doc |-> JNull]
JsonFile(j) == [kind |-> "json", doc |-> j]
\* A file opened for writing whose document is not (yet) written in full.
Partial == [kind |-> "partial", doc |-> JNull]

\* state = {"version": 1, "data": data}, dumped to the file
Envelope(data) ==
    JsonFile(JObject([version |-> JNumber(1), data |-> JsonDump(data)]))

\* load_state's outcome on a state file: the value returned, or the
\* exception raised; `logged` when load_state itself logs the error.
Returned(x) == [ok |-> TRUE, value |-> x, exc |-> "", logged |-> FALSE]
Raised(e, l) == [ok |-> FALSE, value |-> PyNone, exc |-> e, logged |-> l]

\* Mutant: a file that cannot be used is treated like no file.
load_state_lenient(file) ==
    IF file.kind = "absent" THEN Returned(EmptyDict)
    ELSE IF file.kind # "json" THEN Returned(EmptyDict)
    ELSE IF file.doc.t # "object" THEN Returned(EmptyDict)
    ELSE IF "version" \notin DOMAIN file.doc.v THEN Returned(EmptyDict)
    ELSE IF "data" \notin DOMAIN file.doc.v THEN Returned(EmptyDict)
    ELSE Returned(JsonLoad(file.doc.v["data"]))

\* Mutant: state.get("data", {}) in place of the check for `data`.
load_state_default_data(file) ==
    IF file.kind = "absent" THEN Returned(EmptyDict)
    ELSE IF file.kind # "json" THEN Raised("JSONDecodeError", TRUE)
    ELSE IF file.doc.t # "object" THEN Raised("ValueError", FALSE)
    ELSE IF "version" \notin DOMAIN file.doc.v THEN Raised("ValueError", FALSE)
    ELSE IF "data" \notin DOMAIN file.doc.v THEN Returned(EmptyDict)
    ELSE Returned(JsonLoad(file.doc.v["data"]))

load_state(file) ==
    IF file.kind = "absent" THEN Returned(EmptyDict)
    ELSE IF file.kind # "json" THEN Raised("JSONDecodeError", TRUE)
    ELSE IF file.doc.t # "object" THEN Raised("ValueError", FALSE)
    ELSE IF "version" \notin DOMAIN file.doc.v THEN Raised("ValueError", FALSE)
    ELSE IF "data" \notin DOMAIN file.doc.v THEN Raised("ValueError", FALSE)
    ELSE Returned(JsonLoad(file.doc.v["data"]))

\* A call of save_state(workflow, data) or load_state(workflow) made
\* directly: the operation, the step it stands at, its arguments, what it
\* returned or raised, and the number of calls made so far.
StoreCall(op, pc, workflow, data, result, n) ==
    [op |-> op, pc |-> pc, workflow |-> workflow, data |-> data,
     result |-> result, n |-> n]
NoCall == StoreCall("none", "idle", "", PyNone, Returned(PyNone), 0)

\* ------------------------------------------------------------- workflows
\* importlib.import_module("workflows.<name>"): the packages under
\* src/workflows.  "ghost" is no module; extract_github_pr holds only
\* writer.py, so it imports and has no `run` attribute.
Workflows ==
    {"example", "fireflies_ingest", "github_ingest", "extract_github_pr", "ghost"}
ImportableModules ==
    {"example", "fireflies_ingest", "github_ingest", "extract_github_pr"}
ModulesWithRun == {"example", "fireflies_ingest", "github_ingest"}
\* `async def run`
AsyncWorkflows == {"github_ingest"}
\* run() that calls save_state itself
SelfSavingWorkflows == {"fireflies_ingest"}

RunIds == {"r1", "r2"}

\* common.types.RunContext / Trigger
Trigger(type, params) == [type |-> type, params |-> params]
RunContext(workflow, trigger, run_id, started_at, args, dry_run) ==
    [workflow |-> workflow, trigger |-> trigger, run_id |-> run_id,
     started_at |-> started_at, args |-> args, dry_run |-> dry_run]
NoContext ==
    RunContext("", Trigger("", <<>>), "", DateTime(0, "UTC"), <<>>, FALSE)

\* A log record: the logger, the level, the message, and the workflow name
\* and run identifier the message carries ("" when it carries none).
LogRecord(logger, level, msg, workflow, run_id) ==
    [logger |-> logger, level |-> level, msg |-> msg,
     workflow |-> workflow, run_id |-> run_id]

VARIABLES
    clock,        \* the wall clock, in minutes since the epoch
    files,        \* <runtime_root>/state/<workflow>.json, per workflow
    tmp,          \* <runtime_root>/state/<workflow>.json.tmp, per workflow
    rpc,          \* Runner.run: where the call stands
    ctx,          \* Runner.run: its context argument
    state,        \* Runner.run: the loaded state
    new_state,    \* Runner.run: what the workflow returned
    exc,          \* the exception Runner.run raised ("" if none)
    events,       \* the steps of the current Runner.run, in order
    log,          \* the log records of the current Runner.run
    jobs,         \* Scheduler.jobs, in insertion order
    last_run,     \* Scheduler.last_run
    running,      \* Scheduler.running
    spc,          \* Scheduler: where the process stands
    now,          \* Scheduler.run: the tick's `now`
    idx,          \* Scheduler.run: position of the for loop in jobs
    pid_file,     \* whether <runtime_root>/scheduler.pid exists
    registrations,\* register_job calls made after the constructor
    cpc,          \* CLI `run` command: where the process stands
    exit_code,    \* CLI: the exit code of the last finished process
    cli_runs,     \* CLI processes started so far
    due,          \* result of the last _should_run evaluation
    call          \* a direct call of save_state / load_state: where it stands

runnerVars == <<rpc, ctx, state, new_state, exc, events, log>>
storeVars == <<files, tmp>>
schedVars == <<jobs, last_run, running, spc, now, idx, pid_file, registrations, due>>
cliVars == <<cpc, exit_code, cli_runs>>
vars == <<clock, files, tmp, rpc, ctx, state, new_state, exc, events, log,
          jobs, last_run, running, spc, now, idx, pid_file, registrations,
          cpc, exit_code, cli_runs, due, call>>

\* ----------------------------------------------------------------- Runner
\* logger.exception("Workflow '%s' failed (run_id=%s)", ...)
FailureRecord(c) ==
    LogRecord("runner", "ERROR", "failed", c.workflow, c.run_id)

\* Mutant: the except clause logs and does not re-raise.
RunnerExceptSwallows(e) ==
    /\ log' = log \cup {FailureRecord(ctx)}
    /\ exc' = e
    /\ rpc' = "returned"

\* The except clause of Runner.run: log the failure, re-raise.
RunnerExcept(e) ==
    /\ log' = log \cup {FailureRecord(ctx)}
    /\ exc' = e
    /\ rpc' = "raised"

\* A caller invokes runner.run(context).
RunnerCall(c) ==
    /\ rpc' = "resolve"
    /\ ctx' = c
    /\ state' = PyNone
    /\ new_state' = PyNone
    /\ exc' = ""
    /\ events' = <<>>
    /\ log' = {}

\* The call is over and its frame is gone.
RunnerFrameGone ==
    /\ rpc' = "idle"
    /\ ctx' = NoContext
    /\ state' = PyNone
    /\ new_state' = PyNone
    /\ exc' = ""
    /\ events' = <<>>
    /\ log' = {}

\* Mutant: the module is looked up only when run() is called; the state is
\* loaded first.
RunnerResolveLate ==
    /\ rpc = "resolve"
    /\ events' = Append(events, "resolve")
    /\ log' = log \cup {LogRecord("runner", "INFO", "starting", ctx.workflow, "")}
    /\ rpc' = "load"
    /\ UNCHANGED <<ctx, state, new_state, exc, clock, storeVars, schedVars, cliVars, call>>

\* Lines 12-24: log the start, import the module, look for run().
RunnerResolve ==
    /\ rpc = "resolve"
    /\ events' = Append(events, "resolve")
    /\ log' = log \cup {LogRecord("runner", "INFO", "starting", ctx.workflow, "")}
    /\ IF ctx.workflow \notin ImportableModules
       THEN rpc' = "raised" /\ exc' = "RuntimeError: not found"
       ELSE IF ctx.workflow \notin ModulesWithRun
       THEN rpc' = "raised" /\ exc' = "RuntimeError: no run function"
       ELSE rpc' = "load" /\ exc' = exc
    /\ UNCHANGED <<ctx, state, new_state, clock, storeVars, schedVars, cliVars, call>>

\* Lines 26-27: state = load_state(context.workflow), outside the try.
RunnerLoad ==
    /\ rpc = "load"
    /\ events' = Append(events, "load_state")
    /\ LET r == load_state(files[ctx.workflow]) IN
       IF r.ok
       THEN /\ state' = r.value
            /\ rpc' = "invoke"
            /\ exc' = exc
            /\ log' = log \cup {LogRecord("runner", "INFO", "loaded", "", "")}
       ELSE /\ state' = state
            /\ rpc' = "raised"
            /\ exc' = r.exc
            /\ log' = IF r.logged
                      THEN log \cup {LogRecord("state", "ERROR", "invalid json",
                                               ctx.workflow, "")}
                      ELSE log
    /\ UNCHANGED <<ctx, new_state, clock, storeVars, schedVars, cliVars, call>>

\* The last minute the model observes.
Horizon == BootTime + MaxElapsed

\* What one call of workflow_module.run(context, state) can do: return a
\* value or raise; `saves` when the body itself calls save_state before it
\* returns (fireflies_ingest, lines 293-304: not in a dry run, and only if
\* ids were added).
Outcome(kind, value, saves) == [kind |-> kind, value |-> value, saves |-> saves]
WorkflowOutcomes(c) ==
    IF c.workflow \in AsyncWorkflows
    THEN {Outcome("return", PyCoroutine, FALSE)}
    ELSE {Outcome("raise", PyNone, FALSE)}
         \cup {Outcome("return", m, FALSE) : m \in Mappings}
         \cup (IF c.workflow \in SelfSavingWorkflows
               THEN IF c.dry_run
                    THEN {}
                    ELSE {Outcome("return", m, TRUE) : m \in Mappings}
               ELSE {Outcome("return", PyNone, FALSE)})

\* save_state(workflow, data) as one call that succeeds: the temp file is
\* written and renamed over the state file.
SaveStateOk(workflow, data) ==
    /\ files' = [files EXCEPT ![workflow] = Envelope(data)]
    /\ tmp' = [tmp EXCEPT ![workflow] = Absent]

\* Line 30: new_state = workflow_module.run(context, state).  The body runs
\* for a while; the clock moves on.
RunnerInvoke ==
    /\ rpc = "invoke"
    /\ \E d \in 0..1, o \in WorkflowOutcomes(ctx) :
         /\ clock + d <= Horizon
         /\ clock' = clock + d
         /\ IF o.saves
            THEN /\ SaveStateOk(ctx.workflow, o.value)
                 /\ events' = events \o <<"run", "save_state">>
            ELSE /\ UNCHANGED storeVars
                 /\ events' = Append(events, "run")
         /\ IF o.kind = "raise"
            THEN RunnerExcept("WorkflowError") /\ new_state' = new_state
            ELSE /\ new_state' = o.value
                 /\ rpc' = "validate"
                 /\ UNCHANGED <<exc, log>>
    /\ UNCHANGED <<ctx, state, schedVars, cliVars, call>>

\* Mutant: the dry-run flag is not consulted.
RunnerValidateIgnoresDryRun ==
    /\ rpc = "validate"
    /\ events' = Append(events, "validate")
    /\ IF new_state.t # "dict"
       THEN RunnerExcept("RuntimeError: non-dict state")
       ELSE /\ rpc' = "save_write"
            /\ UNCHANGED <<exc, log>>
    /\ UNCHANGED <<ctx, state, new_state, clock, storeVars, schedVars, cliVars, call>>

\* Mutant: a value that is no dict is replaced by {} and the run goes on.
RunnerValidateCoerces ==
    /\ rpc = "validate"
    /\ events' = Append(events, "validate")
    /\ new_state' = IF new_state.t # "dict" THEN EmptyDict ELSE new_state
    /\ IF ctx.dry_run
       THEN /\ rpc' = "returned"
            /\ log' = log \cup {LogRecord("runner", "INFO", "dry-run", "", "")}
            /\ exc' = exc
       ELSE /\ rpc' = "save_write"
            /\ UNCHANGED <<exc, log>>
    /\ UNCHANGED <<ctx, state, clock, storeVars, schedVars, cliVars, call>>

\* Mutant: when the returned value is no dict, the loaded state is written
\* back before the error is raised.
RunnerValidateSavesLoaded ==
    /\ rpc = "validate"
    /\ events' = Append(events, "validate")
    /\ IF new_state.t # "dict"
       THEN /\ RunnerExcept("RuntimeError: non-dict state")
            /\ files' = IF ctx.dry_run THEN files
                        ELSE [files EXCEPT ![ctx.workflow] = Envelope(state)]
       ELSE /\ files' = files
            /\ IF ctx.dry_run
               THEN /\ rpc' = "returned"
                    /\ log' = log \cup {LogRecord("runner", "INFO", "dry-run", "", "")}
                    /\ exc' = exc
               ELSE /\ rpc' = "save_write"
                    /\ UNCHANGED <<exc, log>>
    /\ UNCHANGED <<ctx, state, new_state, clock, tmp, schedVars, cliVars, call>>

\* Lines 32-41: the isinstance check, then the dry-run branch.
RunnerValidate ==
    /\ rpc = "validate"
    /\ events' = Append(events, "validate")
    /\ IF new_state.t # "dict"
       THEN RunnerExcept("RuntimeError: non-dict state")
       ELSE IF ctx.dry_run
       THEN /\ rpc' = "returned"
            /\ log' = log \cup {LogRecord("runner", "INFO", "dry-run", "", "")}
            /\ exc' = exc
       ELSE /\ rpc' = "save_write"
            /\ UNCHANGED <<exc, log>>
    /\ UNCHANGED <<ctx, state, new_state, clock, storeVars, schedVars, cliVars, call>>

\* Mutant: the returned mapping is merged into the loaded one
\* ({**state, **new_state}) and the union is saved.
RunnerSaveWriteMerges ==
    /\ rpc = "save_write"
    /\ events' = Append(events, "save_state")
    /\ \E io_ok \in BOOLEAN :
         IF io_ok
         THEN /\ tmp' = [tmp EXCEPT ![ctx.workflow] =
                           Envelope(PyDict(
                               [k \in DOMAIN state.v \cup DOMAIN new_state.v |->
                                   IF k \in DOMAIN new_state.v
                                   THEN new_state.v[k] ELSE state.v[k]]))]
              /\ rpc' = "save_rename"
              /\ UNCHANGED <<exc, log>>
         ELSE /\ tmp' = [tmp EXCEPT ![ctx.workflow] = Absent]
              /\ RunnerExcept("OSError")
    /\ UNCHANGED <<ctx, state, new_state, clock, files, schedVars, cliVars, call>>

\* save_state lines 63-82: make the directory, write the envelope to the
\* temp file; on an error remove the temp file and raise.
RunnerSaveWrite ==
    /\ rpc = "save_write"
    /\ events' = Append(events, "save_state")
    /\ \E io_ok \in BOOLEAN :
         IF io_ok
         THEN /\ tmp' = [tmp EXCEPT ![ctx.workflow] = Envelope(new_state)]
              /\ rpc' = "save_rename"
              /\ UNCHANGED <<exc, log>>
         ELSE /\ tmp' = [tmp EXCEPT ![ctx.workflow] = Absent]
              /\ RunnerExcept("OSError")
    /\ UNCHANGED <<ctx, state, new_state, clock, files, schedVars, cliVars, call>>

\* save_state lines 84-93: temp_file.replace(state_file); on an error remove
\* the temp file and raise.  Then runner line 41 logs the saved state.
RunnerSaveRename ==
    /\ rpc = "save_rename"
    /\ \E io_ok \in BOOLEAN :
         IF io_ok
         THEN /\ files' = [files EXCEPT ![ctx.workflow] = tmp[ctx.workflow]]
              /\ tmp' = [tmp EXCEPT ![ctx.workflow] = Absent]
              /\ rpc' = "returned"
              /\ log' = log \cup {LogRecord("runner", "INFO", "saved", "", "")}
              /\ exc' = exc
         ELSE /\ files' = files
              /\ tmp' = [tmp EXCEPT ![ctx.workflow] = Absent]
              /\ RunnerExcept("OSError")
    /\ UNCHANGED <<ctx, state, new_state, events, clock, schedVars, cliVars, call>>


\* -------------------------------------------------------------- Scheduler
SchedulerConfig(workflow, cron_expression, timezone) ==
    [workflow |-> workflow, cron_expression |-> cron_expression,
     timezone |-> timezone]

\* Position of a workflow's config in the jobs dict (0: not a key).
JobIndex(js, workflow) ==
    IF \E i \in 1..Len(js) : js[i].workflow = workflow
    THEN CHOOSE i \in 1..Len(js) : js[i].workflow = workflow
    ELSE 0
JobNames(js) == {js[i].workflow : i \in 1..Len(js)}
JobConfig(js, workflow) == js[JobIndex(js, workflow)]

\* Mutant: the registry is a list and every registration is appended.
register_job_appends(js, workflow, cron_expression, timezone) ==
    Append(js, SchedulerConfig(workflow, cron_expression, timezone))

\* self.jobs[workflow] = config: a new key goes last, an existing key keeps
\* its place.
register_job(js, workflow, cron_expression, timezone) ==
    LET config == SchedulerConfig(workflow, cron_expression, timezone)
        i == JobIndex(js, workflow)
    IN IF i = 0 THEN Append(js, config) ELSE [js EXCEPT ![i] = config]

\* _register_default_jobs
DefaultJobs ==
    register_job(<<>>, "fireflies_ingest", "15,45 5-22 * * *", "America/New_York")

\* Mutant: the comparison is strict (now_tz > next_run).
should_run_strict(js, lr, workflow, t) ==
    IF workflow \notin JobNames(js) THEN "False"
    ELSE LET config == JobConfig(js, workflow) IN
         IF config.timezone \notin KnownZones THEN "ZoneInfoNotFoundError"
         ELSE LET last == IF workflow \in DOMAIN lr THEN lr[workflow]
                          ELSE EpochIn(config.timezone)
              IN IF config.cron_expression \notin ValidCrons
                 THEN "CroniterBadCronError"
                 ELSE IF t.inst > CronGetNext(config.cron_expression, last).inst
                      THEN "True" ELSE "False"

\* Mutant: now is compared with the cursor, not with the fire time after it.
should_run_from_cursor(js, lr, workflow, t) ==
    IF workflow \notin JobNames(js) THEN "False"
    ELSE LET config == JobConfig(js, workflow) IN
         IF config.timezone \notin KnownZones THEN "ZoneInfoNotFoundError"
         ELSE LET last == IF workflow \in DOMAIN lr THEN lr[workflow]
                          ELSE EpochIn(config.timezone)
              IN IF config.cron_expression \notin ValidCrons
                 THEN "CroniterBadCronError"
                 ELSE IF t.inst >= last.inst THEN "True" ELSE "False"

\* Mutant: a job without a cursor is counted from the tick time, not from
\* the epoch.
should_run_never_from_now(js, lr, workflow, t) ==
    IF workflow \notin JobNames(js) THEN "False"
    ELSE LET config == JobConfig(js, workflow) IN
         IF config.timezone \notin KnownZones THEN "ZoneInfoNotFoundError"
         ELSE LET tz == config.timezone
                  now_tz == Astimezone(t, tz)
                  last == IF workflow \in DOMAIN lr THEN lr[workflow]
                          ELSE now_tz
              IN IF config.cron_expression \notin ValidCrons
                 THEN "CroniterBadCronError"
                 ELSE LET next_run == CronGetNext(config.cron_expression, last)
                      IN IF now_tz.inst >= next_run.inst THEN "True" ELSE "False"

\* _should_run(workflow, now): "True", "False", or the exception raised by
\* ZoneInfo or croniter.
should_run(js, lr, workflow, t) ==
    IF workflow \notin JobNames(js) THEN "False"
    ELSE LET config == JobConfig(js, workflow) IN
         IF config.timezone \notin KnownZones THEN "ZoneInfoNotFoundError"
         ELSE LET tz == config.timezone
                  now_tz == Astimezone(t, tz)
                  last == IF workflow \in DOMAIN lr THEN lr[workflow]
                          ELSE EpochIn(tz)
              IN IF config.cron_expression \notin ValidCrons
                 THEN "CroniterBadCronError"
                 ELSE LET next_run == CronGetNext(config.cron_expression, last)
                      IN IF now_tz.inst >= next_run.inst THEN "True" ELSE "False"

\* Mutant: the trigger time is taken in UTC (datetime.now(timezone.utc)).
create_context_utc(js, workflow, t, run_id) ==
    LET config == JobConfig(js, workflow)
        triggered_at == DateTime(t, "UTC")
    IN RunContext(workflow,
                  Trigger("scheduled",
                          [schedule |-> config.cron_expression,
                           triggered_at |-> Isoformat(triggered_at),
                           timezone |-> config.timezone]),
                  run_id, triggered_at, <<>>, FALSE)

\* _create_context(workflow), with the uuid4 it draws
create_context(js, workflow, t, run_id) ==
    LET config == JobConfig(js, workflow)
        triggered_at == DateTime(t, config.timezone)
    IN RunContext(workflow,
                  Trigger("scheduled",
                          [schedule |-> config.cron_expression,
                           triggered_at |-> Isoformat(triggered_at),
                           timezone |-> config.timezone]),
                  run_id, triggered_at, <<>>, FALSE)

\* Mutant: one timestamp for the whole scheduler; every cursor is moved.
SetCursorOfAll(lr, workflow, dt) ==
    [w \in DOMAIN lr \cup {workflow} |-> dt]

\* self.last_run[workflow] = datetime.now(tz)
SetCursor(lr, workflow, dt) ==
    [w \in DOMAIN lr \cup {workflow} |-> IF w = workflow THEN dt ELSE lr[w]]

\* The register_job calls a caller makes on a constructed Scheduler.
RegistrationInputs ==
    { SchedulerConfig("example", "*/2 * * * *", "UTC"),
      SchedulerConfig("example", "*/3 * * * *", "Asia/Kathmandu"),
      SchedulerConfig("example", "every day", "UTC"),
      SchedulerConfig("example", "*/2 * * * *", "Mars/Phobos"),
      SchedulerConfig("ghost", "*/2 * * * *", "UTC"),
      SchedulerConfig("fireflies_ingest", "*/2 * * * *", "Asia/Kathmandu") }

\* register_job, called between construction and run() or after run() has
\* returned.
RegisterJob ==
    /\ spc \in {"constructed", "stopped"}
    /\ registrations < MaxRegistrations
    /\ \E c \in RegistrationInputs :
         jobs' = register_job(jobs, c.workflow, c.cron_expression, c.timezone)
    /\ registrations' = registrations + 1
    /\ UNCHANGED <<last_run, running, spc, now, idx, pid_file, due,
                   clock, storeVars, runnerVars, cliVars, call>>

\* _handle_shutdown: SIGINT or SIGTERM arrives while the process lives.
HandleShutdown ==
    /\ spc \notin {"none"}
    /\ running' = FALSE
    /\ UNCHANGED <<jobs, last_run, spc, now, idx, pid_file, registrations, due,
                   clock, storeVars, runnerVars, cliVars, call>>

\* Mutant: run() leaves the running flag as it finds it.
StartRunKeepsFlag ==
    /\ spc \in {"constructed", "stopped"}
    /\ running' = running
    /\ pid_file' = TRUE
    /\ spc' = "while"
    /\ UNCHANGED <<jobs, last_run, now, idx, registrations, due,
                   clock, storeVars, runnerVars, cliVars, call>>

\* run(), lines 138-140
StartRun ==
    /\ spc \in {"constructed", "stopped"}
    /\ running' = TRUE
    /\ pid_file' = TRUE
    /\ spc' = "while"
    /\ UNCHANGED <<jobs, last_run, now, idx, registrations, due,
                   clock, storeVars, runnerVars, cliVars, call>>

\* Mutant: `while True`: the loop test does not read the running flag.
WhileCheckForever ==
    /\ spc = "while"
    /\ now' = DateTime(clock, "local")
    /\ idx' = 1
    /\ spc' = "for"
    /\ UNCHANGED <<jobs, last_run, running, pid_file, registrations, due,
                   clock, storeVars, runnerVars, cliVars, call>>

\* lines 143-144: the loop test and the tick's `now`
WhileCheck ==
    /\ spc = "while"
    /\ IF running
       THEN /\ now' = DateTime(clock, "local")
            /\ idx' = 1
            /\ spc' = "for"
       ELSE /\ spc' = "finally"
            /\ UNCHANGED <<now, idx>>
    /\ UNCHANGED <<jobs, last_run, running, pid_file, registrations, due,
                   clock, storeVars, runnerVars, cliVars, call>>

\* Mutant: the Runner call is handed to another thread and the loop goes
\* on to the next job without waiting for it.
ForNextDoesNotWait ==
    /\ spc = "for"
    /\ IF idx > Len(jobs)
       THEN /\ spc' = "sleep"
            /\ UNCHANGED <<idx, due, runnerVars>>
       ELSE LET workflow == jobs[idx].workflow
                r == should_run(jobs, last_run, workflow, now)
            IN /\ due' = r
               /\ idx' = idx + 1
               /\ spc' = spc
               /\ IF r = "True"
                  THEN \E id \in RunIds :
                          RunnerCall(create_context(jobs, workflow, clock, id))
                  ELSE UNCHANGED runnerVars
    /\ UNCHANGED <<jobs, last_run, running, now, pid_file, registrations,
                   clock, storeVars, cliVars, call>>

\* lines 146-155, 164-168: the next job of the for loop; its due-check;
\* when due, its context and the call of the Runner.  An exception of the
\* due-check is caught and logged by the handler of line 164.
ForNext ==
    /\ spc = "for"
    /\ IF idx > Len(jobs)
       THEN /\ spc' = "sleep"
            /\ UNCHANGED <<idx, due, runnerVars>>
       ELSE LET workflow == jobs[idx].workflow
                r == should_run(jobs, last_run, workflow, now)
            IN /\ due' = r
               /\ IF r = "True"
                  THEN /\ \E id \in RunIds :
                            RunnerCall(create_context(jobs, workflow, clock, id))
                       /\ spc' = "job"
                       /\ idx' = idx
                  ELSE /\ idx' = idx + 1
                       /\ spc' = spc
                       /\ UNCHANGED runnerVars
    /\ UNCHANGED <<jobs, last_run, running, now, pid_file, registrations,
                   clock, storeVars, cliVars, call>>

\* Mutant: the cursor moves to the tick time `now` of line 144.
JobReturnedTickTime ==
    /\ spc = "job"
    /\ rpc = "returned"
    /\ LET workflow == jobs[idx].workflow
           tz == JobConfig(jobs, workflow).timezone
       IN last_run' = SetCursor(last_run, workflow, DateTime(now.inst, tz))
    /\ idx' = idx + 1
    /\ spc' = "for"
    /\ RunnerFrameGone
    /\ UNCHANGED <<jobs, running, now, pid_file, registrations, due,
                   clock, storeVars, cliVars, call>>

\* Mutant: the cursor moves to the fire time that made the job due, so the
\* fire times missed after it are caught up one by one.
JobReturnedCatchesUp ==
    /\ spc = "job"
    /\ rpc = "returned"
    /\ LET workflow == jobs[idx].workflow
           config == JobConfig(jobs, workflow)
           last == IF workflow \in DOMAIN last_run THEN last_run[workflow]
                   ELSE EpochIn(config.timezone)
       IN last_run' = SetCursor(last_run, workflow,
                                CronGetNext(config.cron_expression, last))
    /\ idx' = idx + 1
    /\ spc' = "for"
    /\ RunnerFrameGone
    /\ UNCHANGED <<jobs, running, now, pid_file, registrations, due,
                   clock, storeVars, cliVars, call>>

\* lines 157-163: runner.run returned; the cursor moves to datetime.now(tz)
JobReturned ==
    /\ spc = "job"
    /\ rpc = "returned"
    /\ LET workflow == jobs[idx].workflow
           tz == JobConfig(jobs, workflow).timezone
       IN last_run' = SetCursor(last_run, workflow, DateTime(clock, tz))
    /\ idx' = idx + 1
    /\ spc' = "for"
    /\ RunnerFrameGone
    /\ UNCHANGED <<jobs, running, now, pid_file, registrations, due,
                   clock, storeVars, cliVars, call>>

\* Mutant: no per-job handler; the exception reaches the handler of the
\* while loop and run() ends.
JobRaisedEndsLoop ==
    /\ spc = "job"
    /\ rpc = "raised"
    /\ idx' = idx
    /\ spc' = "finally"
    /\ RunnerFrameGone
    /\ UNCHANGED <<jobs, last_run, running, now, pid_file, registrations, due,
                   clock, storeVars, cliVars, call>>

\* Mutant: the handler of line 164 tries the job again at once.
JobRaisedRetries ==
    /\ spc = "job"
    /\ rpc = "raised"
    /\ idx' = idx
    /\ spc' = "for"
    /\ RunnerFrameGone
    /\ UNCHANGED <<jobs, last_run, running, now, pid_file, registrations, due,
                   clock, storeVars, cliVars, call>>

\* lines 164-168: runner.run raised; the handler logs and the loop goes on
JobRaised ==
    /\ spc = "job"
    /\ rpc = "raised"
    /\ idx' = idx + 1
    /\ spc' = "for"
    /\ RunnerFrameGone
    /\ UNCHANGED <<jobs, last_run, running, now, pid_file, registrations, due,
                   clock, storeVars, cliVars, call>>

\* line 171: time.sleep(settings.scheduler_check_interval), 30 seconds: the
\* minute of the clock stays or moves on by one.
Sleep ==
    /\ spc = "sleep"
    /\ \E d \in 0..1 :
         /\ clock + d <= Horizon
         /\ clock' = clock + d
    /\ spc' = "while"
    /\ UNCHANGED <<jobs, last_run, running, now, idx, pid_file, registrations,
                   due, storeVars, runnerVars, cliVars, call>>

\* lines 175-177: _remove_pid_file, and run() returns
Finally ==
    /\ spc = "finally"
    /\ pid_file' = FALSE
    /\ spc' = "stopped"
    /\ UNCHANGED <<jobs, last_run, running, now, idx, registrations, due,
                   clock, storeVars, runnerVars, cliVars, call>>

\* The state files a process can find when it starts.
InitFileContents ==
    { Garbage,
      JsonFile(JArray),
      JsonFile(JObject([data |-> JObject(<<>>)])),
      JsonFile(JObject([version |-> JNumber(1)])),
      Envelope(PyDict([count |-> PyInt(2), seen |-> PyInt(1)])) }
AllAbsent == [w \in Workflows |-> Absent]
InitFiles ==
    {AllAbsent} \cup
    { [AllAbsent EXCEPT ![w] = f] : w \in ModulesWithRun, f \in InitFileContents }
\* ... and those the scheduler process is started on.
InitFilesScheduler ==
    { AllAbsent,
      [AllAbsent EXCEPT !["fireflies_ingest"] = Garbage],
      [AllAbsent EXCEPT !["example"] =
          Envelope(PyDict([count |-> PyInt(2), seen |-> PyInt(1)]))] }

\* `python main.py schedule`: Scheduler(runner) has been constructed.
Init ==
    /\ clock = BootTime
    /\ files \in InitFilesScheduler
    /\ tmp = AllAbsent
    /\ rpc = "idle"
    /\ ctx = NoContext
    /\ state = PyNone
    /\ new_state = PyNone
    /\ exc = ""
    /\ events = <<>>
    /\ log = {}
    /\ jobs = DefaultJobs
    /\ last_run = <<>>
    /\ running = FALSE
    /\ spc = "constructed"
    /\ now = DateTime(0, "local")
    /\ idx = 0
    /\ pid_file = FALSE
    /\ registrations = 0
    /\ due = ""
    /\ cpc = "none"
    /\ exit_code = 0
    /\ cli_runs = 0
    /\ call = NoCall

Next ==
    \/ RegisterJob
    \/ HandleShutdown
    \/ StartRun
    \/ WhileCheck
    \/ ForNext
    \/ JobReturned
    \/ JobRaised
    \/ Sleep
    \/ Finally
    \/ RunnerResolve
    \/ RunnerLoad
    \/ RunnerInvoke
    \/ RunnerValidate
    \/ RunnerSaveWrite
    \/ RunnerSaveRename

Spec == Init /\ [][Next]_vars

\* -------------------------------------------------------------------- CLI
\* A --arg item is a string, held as its sequence of characters.
ArgItems ==
    { <<"k", "=", "v">>, <<"k", "=", "a", "=", "b">>, <<"j", "=">>, <<"k", "v">> }
\* The --arg lists the CLI is called with in this model.
ArgLists ==
    { <<>>,
      << <<"k", "=", "v">>, <<"k", "=", "a", "=", "b">> >>,
      << <<"j", "=">>, <<"k", "v">> >> }

\* "=" in item
HasEquals(item) == \E i \in 1..Len(item) : item[i] = "="

\* Mutant: item.rsplit("=", 1): the split is made at the last "=".
SplitAtLast(item) ==
    LET i == CHOOSE n \in 1..Len(item) :
                 /\ item[n] = "="
                 /\ \A m \in (n + 1)..Len(item) : item[m] # "="
    IN <<SubSeq(item, 1, i - 1), SubSeq(item, i + 1, Len(item))>>

\* item.split("=", 1)
SplitOnce(item) ==
    LET i == CHOOSE n \in 1..Len(item) :
                 /\ item[n] = "="
                 /\ \A m \in 1..(n - 1) : item[m] # "="
    IN <<SubSeq(item, 1, i - 1), SubSeq(item, i + 1, Len(item))>>

\* The loop of build_context_from_cli over args.arg: the dict built, or the
\* ValueError raised at the first item without "=".
RECURSIVE ParseArgs(_, _)
ParseArgs(items, acc) ==
    IF items = <<>> THEN [ok |-> TRUE, args |-> acc]
    ELSE IF ~HasEquals(Head(items)) THEN [ok |-> FALSE, args |-> acc]
    ELSE LET kv == SplitOnce(Head(items))
             next == [k \in DOMAIN acc \cup {kv[1]} |->
                         IF k = kv[1] THEN kv[2] ELSE acc[k]]
         IN ParseArgs(Tail(items), next)

build_context_from_cli(workflow, items, dry_run, t, run_id) ==
    LET parsed == ParseArgs(items, <<>>)
    IN [ok |-> parsed.ok,
        context |-> RunContext(workflow, Trigger("manual", <<>>), run_id,
                               DateTime(t, "UTC"), parsed.args, dry_run)]

\* main(), `run` command, lines 56-61: build the context, call the Runner.
\* A ValueError of build_context_from_cli is not caught: the interpreter
\* ends with status 1.
CliMain ==
    /\ cpc \in {"start", "exited"}
    /\ cli_runs < MaxCliRuns
    /\ cli_runs' = cli_runs + 1
    /\ \E workflow \in Workflows, items \in ArgLists, dry_run \in BOOLEAN,
          id \in RunIds :
         LET b == build_context_from_cli(workflow, items, dry_run, clock, id)
         IN IF b.ok
            THEN /\ RunnerCall(b.context)
                 /\ cpc' = "run"
                 /\ exit_code' = exit_code
            ELSE /\ cpc' = "exited"
                 /\ exit_code' = 1
                 /\ UNCHANGED runnerVars
    /\ UNCHANGED <<clock, storeVars, schedVars, call>>

\* runner.run(context) returned: main() returns, status 0
CliReturned ==
    /\ cpc = "run"
    /\ rpc = "returned"
    /\ cpc' = "exited"
    /\ exit_code' = 0
    /\ RunnerFrameGone
    /\ UNCHANGED <<cli_runs, clock, storeVars, schedVars, call>>

\* Mutant: `except Exception: pass`: main() returns, status 0.
CliRaisedExitsZero ==
    /\ cpc = "run"
    /\ rpc = "raised"
    /\ cpc' = "exited"
    /\ exit_code' = 0
    /\ RunnerFrameGone
    /\ UNCHANGED <<cli_runs, clock, storeVars, schedVars, call>>

\* lines 62-63: except Exception: sys.exit(1)
CliRaised ==
    /\ cpc = "run"
    /\ rpc = "raised"
    /\ cpc' = "exited"
    /\ exit_code' = 1
    /\ RunnerFrameGone
    /\ UNCHANGED <<cli_runs, clock, storeVars, schedVars, call>>

\* `python main.py run ...`, run one process after the other on one runtime
\* root.
InitCli ==
    /\ clock = BootTime
    /\ files \in InitFiles
    /\ tmp = AllAbsent
    /\ rpc = "idle"
    /\ ctx = NoContext
    /\ state = PyNone
    /\ new_state = PyNone
    /\ exc = ""
    /\ events = <<>>
    /\ log = {}
    /\ jobs = <<>>
    /\ last_run = <<>>
    /\ running = FALSE
    /\ spc = "none"
    /\ now = DateTime(0, "local")
    /\ idx = 0
    /\ pid_file = FALSE
    /\ registrations = 0
    /\ due = ""
    /\ cpc = "start"
    /\ exit_code = 0
    /\ cli_runs = 0
    /\ call = NoCall

NextCli ==
    \/ CliMain
    \/ CliReturned
    \/ CliRaised
    \/ RunnerResolve
    \/ RunnerLoad
    \/ RunnerInvoke
    \/ RunnerValidate
    \/ RunnerSaveWrite
    \/ RunnerSaveRename

SpecCli == InitCli /\ [][NextCli]_vars

\* ------------------------------------------- a body that assigns to its context
\* RunContext is a plain dataclass (types.py:12-19), not a frozen one, and
\* line 30 of the Runner hands the body the caller's own object.  The Runner
\* imports whatever module workflows.<name> is; a body may assign fields of
\* the context before it returns or raises.  The fields the Runner reads
\* afterwards are workflow (lines 40, 46) and dry_run (line 37).
ContextAssignments(c) ==
    {[c EXCEPT !.workflow = w, !.dry_run = b] : w \in Workflows, b \in BOOLEAN}

RunnerInvokeBody ==
    /\ rpc = "invoke"
    /\ \E d \in 0..1, o \in WorkflowOutcomes(ctx), c \in ContextAssignments(ctx) :
         /\ clock + d <= Horizon
         /\ clock' = clock + d
         /\ ctx' = c
         /\ IF o.saves
            THEN /\ SaveStateOk(ctx.workflow, o.value)
                 /\ events' = events \o <<"run", "save_state">>
            ELSE /\ UNCHANGED storeVars
                 /\ events' = Append(events, "run")
         /\ IF o.kind = "raise"
            THEN /\ log' = log \cup {FailureRecord(c)}
                 /\ exc' = "WorkflowError"
                 /\ rpc' = "raised"
                 /\ new_state' = new_state
            ELSE /\ new_state' = o.value
                 /\ rpc' = "validate"
                 /\ UNCHANGED <<exc, log>>
    /\ UNCHANGED <<state, schedVars, cliVars, call>>

NextBody ==
    \/ CliMain
    \/ CliReturned
    \/ CliRaised
    \/ RunnerResolve
    \/ RunnerLoad
    \/ RunnerInvokeBody
    \/ RunnerValidate
    \/ RunnerSaveWrite
    \/ RunnerSaveRename

SpecBody == InitCli /\ [][NextBody]_vars

\* ------------------------------------------- the scheduler daemon
\* `python main.py schedule` (main.py:105-121): the Scheduler is constructed
\* and run() is called; nothing calls register_job after the constructor.
\* The thread of run() takes its steps one after the other, and a Runner
\* call that does not hang takes its steps too.

\* Mutant: no finally clause; the handler of the loop error returns.
SleepRaisesSkipsFinally ==
    /\ spc = "sleep"
    /\ spc' = "stopped"
    /\ UNCHANGED <<jobs, last_run, running, now, idx, pid_file, registrations,
                   due, clock, storeVars, runnerVars, cliVars, call>>

\* line 171 raises (ValueError of time.sleep for a negative
\* scheduler_check_interval): the error is no job's, the handler of lines
\* 173-174 logs it and the finally clause follows.
SleepRaises ==
    /\ spc = "sleep"
    /\ spc' = "finally"
    /\ UNCHANGED <<jobs, last_run, running, now, idx, pid_file, registrations,
                   due, clock, storeVars, runnerVars, cliVars, call>>

NextDaemon ==
    \/ HandleShutdown
    \/ StartRun
    \/ WhileCheck
    \/ ForNext
    \/ JobReturned
    \/ JobRaised
    \/ Sleep
    \/ SleepRaises
    \/ Finally
    \/ RunnerResolve
    \/ RunnerLoad
    \/ RunnerInvoke
    \/ RunnerValidate
    \/ RunnerSaveWrite
    \/ RunnerSaveRename

DaemonFairness ==
    /\ WF_vars(WhileCheck)
    /\ WF_vars(ForNext)
    /\ WF_vars(JobReturned)
    /\ WF_vars(JobRaised)
    /\ WF_vars(Sleep)
    /\ WF_vars(Finally)
    /\ WF_vars(RunnerResolve)
    /\ WF_vars(RunnerLoad)
    /\ WF_vars(RunnerInvoke)
    /\ WF_vars(RunnerValidate)
    /\ WF_vars(RunnerSaveWrite)
    /\ WF_vars(RunnerSaveRename)

SpecDaemon == Init /\ [][NextDaemon]_vars /\ DaemonFairness

\* ------------------------------------------------- _should_run on its own
\* 2024-01-01T00:00:00Z: day 19723 since the epoch.
NewYear2024 == 19723 * MinutesPerDay

\* One registered job, a cursor (or none) and a tick time around
\* 2024-01-01T00:00Z; the cursor may be in another zone than the job's
\* (it is written in the zone of the registration current at that time).
InitDue ==
    /\ clock = BootTime
    /\ files = AllAbsent
    /\ tmp = AllAbsent
    /\ rpc = "idle"
    /\ ctx = NoContext
    /\ state = PyNone
    /\ new_state = PyNone
    /\ exc = ""
    /\ events = <<>>
    /\ log = {}
    /\ \E cron \in CronExprs, tz \in Zones :
         jobs = register_job(<<>>, "example", cron, tz)
    /\ \/ last_run = <<>>
       \/ \E k \in 0..2, tz \in {"UTC", "Asia/Kathmandu"} :
            last_run = SetCursor(<<>>, "example", DateTime(NewYear2024 + k, tz))
    /\ running = FALSE
    /\ spc = "tick"
    /\ \E k \in 0..(60 + MaxElapsed) : now = DateTime(NewYear2024 + k, "local")
    /\ idx = 0
    /\ pid_file = FALSE
    /\ registrations = 0
    /\ due = ""
    /\ cpc = "none"
    /\ exit_code = 0
    /\ cli_runs = 0
    /\ call = NoCall

\* self._should_run(workflow, now) for a registered or an unregistered name
EvalShouldRun ==
    /\ spc = "tick"
    /\ \E workflow \in {"example", "ghost"} :
         /\ due' = should_run(jobs, last_run, workflow, now)
         /\ spc' = IF workflow = "example" THEN "checked" ELSE "checked_other"
    /\ UNCHANGED <<jobs, last_run, running, now, idx, pid_file, registrations,
                   clock, storeVars, runnerVars, cliVars, call>>

NextDue == EvalShouldRun

SpecDue == InitDue /\ [][NextDue]_vars

\* ------------------------------------------- the State Store on its own
\* save_state and load_state called directly on one runtime root, one call
\* after the other (runner.py:26 and :40 and
\* fireflies_ingest/workflow.py:301 are such callers), with save_state
\* taken line by line.  An I/O operation of save_state can fail, and the
\* calling process can die between any two steps.
StoreWorkflows == {"example", "fireflies_ingest"}

\* The data arguments of save_state: mappings json can encode, and one it
\* cannot.
StoreData ==
    Mappings \cup
    { EmptyDict,
      PyDict([cursor |-> PyNone, items |-> PyList, meta |-> EmptyDict]),
      PyDict([seen_at |-> PyDatetime]) }

\* An envelope of another schema version.
EnvelopeV2 ==
    JsonFile(JObject([version |-> JNumber(2),
                      data |-> JObject([count |-> JNumber(7)])]))

\* {"version": 1, "data": []}: an envelope whose data is no JSON object.
EnvelopeOfList ==
    JsonFile(JObject([version |-> JNumber(1), data |-> JArray]))

\* The state file a direct caller can find.
StoreFileContents == InitFileContents \cup {Absent, EnvelopeV2, EnvelopeOfList}
InitStoreFiles ==
    { [AllAbsent EXCEPT ![w] = f] : w \in StoreWorkflows, f \in StoreFileContents }

InitStore ==
    /\ clock = BootTime
    /\ files \in InitStoreFiles
    /\ tmp = AllAbsent
    /\ rpc = "idle"
    /\ ctx = NoContext
    /\ state = PyNone
    /\ new_state = PyNone
    /\ exc = ""
    /\ events = <<>>
    /\ log = {}
    /\ jobs = <<>>
    /\ last_run = <<>>
    /\ running = FALSE
    /\ spc = "none"
    /\ now = DateTime(0, "local")
    /\ idx = 0
    /\ pid_file = FALSE
    /\ registrations = 0
    /\ due = ""
    /\ cpc = "none"
    /\ exit_code = 0
    /\ cli_runs = 0
    /\ call = NoCall

\* The call is over: it raised.
StoreRaise(e, logged) ==
    call' = [call EXCEPT !.pc = "done", !.result = Raised(e, logged)]
StoreGoto(pc) == call' = [call EXCEPT !.pc = pc]

\* temp_file.exists() / temp_file.unlink() of the two except clauses
UnlinkTemp == tmp' = [tmp EXCEPT ![call.workflow] = Absent]

\* save_state(workflow, data) is called.
SaveStateCall ==
    /\ call.pc \in {"idle", "done"}
    /\ call.n < MaxStoreCalls
    /\ \E workflow \in StoreWorkflows, data \in StoreData :
         call' = StoreCall("save_state", "mkdir", workflow, data,
                           Returned(PyNone), call.n + 1)
    /\ UNCHANGED <<clock, storeVars, runnerVars, schedVars, cliVars>>

\* lines 63-64: state_dir.mkdir(parents=True, exist_ok=True), outside the
\* try blocks: an error leaves save_state as it is, unlogged.
SaveMkdir ==
    /\ call.pc = "mkdir"
    /\ \E io_ok \in BOOLEAN :
         IF io_ok THEN StoreGoto("open") ELSE StoreRaise("OSError", FALSE)
    /\ UNCHANGED <<clock, storeVars, runnerVars, schedVars, cliVars>>

\* Mutant: the state file itself is opened for writing.
SaveOpenInPlace ==
    /\ call.pc = "open"
    /\ \E io_ok \in BOOLEAN :
         IF io_ok
         THEN /\ files' = [files EXCEPT ![call.workflow] = Partial]
              /\ tmp' = tmp
              /\ StoreGoto("dump")
         ELSE /\ files' = files
              /\ UnlinkTemp
              /\ StoreRaise("OSError", TRUE)
    /\ UNCHANGED <<clock, runnerVars, schedVars, cliVars>>

\* Mutant: temp_file.open("x"): exclusive creation, which fails when the
\* temp file is there already.
SaveOpenExclusive ==
    /\ call.pc = "open"
    /\ \E io_ok \in BOOLEAN :
         IF tmp[call.workflow] # Absent
         THEN /\ UnlinkTemp
              /\ StoreRaise("FileExistsError", TRUE)
         ELSE IF io_ok
         THEN /\ tmp' = [tmp EXCEPT ![call.workflow] = Partial]
              /\ StoreGoto("dump")
         ELSE /\ UnlinkTemp
              /\ StoreRaise("OSError", TRUE)
    /\ UNCHANGED <<clock, files, runnerVars, schedVars, cliVars>>

\* line 74: temp_file.open("w"): the temp file exists and is empty.
\* lines 77-82 on an error.
SaveOpen ==
    /\ call.pc = "open"
    /\ \E io_ok \in BOOLEAN :
         IF io_ok
         THEN /\ tmp' = [tmp EXCEPT ![call.workflow] = Partial]
              /\ StoreGoto("dump")
         ELSE /\ UnlinkTemp
              /\ StoreRaise("OSError", TRUE)
    /\ UNCHANGED <<clock, files, runnerVars, schedVars, cliVars>>

\* lines 75-76: json.dump writes the envelope piece by piece, then the
\* newline, and the file is closed.  lines 77-82 on a TypeError of the
\* encoder or an error of a write.
SaveDump ==
    /\ call.pc = "dump"
    /\ IF ~JsonSerializable(call.data)
       THEN UnlinkTemp /\ StoreRaise("TypeError", TRUE)
       ELSE \E io_ok \in BOOLEAN :
              IF io_ok
              THEN /\ tmp' = [tmp EXCEPT ![call.workflow] = Envelope(call.data)]
                   /\ StoreGoto("rename")
              ELSE /\ UnlinkTemp
                   /\ StoreRaise("OSError", TRUE)
    /\ UNCHANGED <<clock, files, runnerVars, schedVars, cliVars>>

\* Mutant: a failed rename raises without removing the temp file.
SaveRenameLeavesTemp ==
    /\ call.pc = "rename"
    /\ \E io_ok \in BOOLEAN :
         IF io_ok
         THEN /\ files' = [files EXCEPT ![call.workflow] = tmp[call.workflow]]
              /\ UnlinkTemp
              /\ call' = [call EXCEPT !.pc = "done"]
         ELSE /\ files' = files
              /\ tmp' = tmp
              /\ StoreRaise("OSError", TRUE)
    /\ UNCHANGED <<clock, runnerVars, schedVars, cliVars>>

\* Mutant: the state file is removed before the temp file is renamed.
SaveRenameUnlinksFirst ==
    /\ call.pc = "rename"
    /\ \E io_ok \in BOOLEAN :
         IF io_ok
         THEN /\ files' = [files EXCEPT ![call.workflow] = tmp[call.workflow]]
              /\ UnlinkTemp
              /\ call' = [call EXCEPT !.pc = "done"]
         ELSE /\ files' = [files EXCEPT ![call.workflow] = Absent]
              /\ UnlinkTemp
              /\ StoreRaise("OSError", TRUE)
    /\ UNCHANGED <<clock, runnerVars, schedVars, cliVars>>

\* lines 85-93: temp_file.replace(state_file)
SaveRename ==
    /\ call.pc = "rename"
    /\ \E io_ok \in BOOLEAN :
         IF io_ok
         THEN /\ files' = [files EXCEPT ![call.workflow] = tmp[call.workflow]]
              /\ UnlinkTemp
              /\ call' = [call EXCEPT !.pc = "done"]
         ELSE /\ files' = files
              /\ UnlinkTemp
              /\ StoreRaise("OSError", TRUE)
    /\ UNCHANGED <<clock, runnerVars, schedVars, cliVars>>

\* The process that called save_state dies inside the call: no line of
\* save_state runs any more, the files stay as they are.
Crash ==
    /\ call.op = "save_state"
    /\ call.pc \in {"mkdir", "open", "dump", "rename"}
    /\ call' = [NoCall EXCEPT !.n = call.n]
    /\ UNCHANGED <<clock, storeVars, runnerVars, schedVars, cliVars>>

\* load_state(workflow): it reads the state file, nothing else.
LoadStateCall ==
    /\ call.pc \in {"idle", "done"}
    /\ call.n < MaxStoreCalls
    /\ \E workflow \in StoreWorkflows :
         call' = StoreCall("load_state", "done", workflow, PyNone,
                           load_state(files[workflow]), call.n + 1)
    /\ UNCHANGED <<clock, storeVars, runnerVars, schedVars, cliVars>>

NextStore ==
    \/ SaveStateCall
    \/ SaveMkdir
    \/ SaveOpen
    \/ SaveDump
    \/ SaveRename
    \/ Crash
    \/ LoadStateCall

SpecStore == InitStore /\ [][NextStore]_vars

\* ================================================================= claims
Range(seq) == {seq[i] : i \in 1..Len(seq)}

\* The job the for loop stands at.
CurrentJob == jobs[idx]

\* A step of the scheduler's own thread (a signal handler changes only the
\* running flag).
LoopStep == <<spc, idx, rpc>>' # <<spc, idx, rpc>>

\* Some fire time of the expression, read in the zone of `from`, lies after
\* `from` and not after the instant `upto`.
FireTimeBetween(expr, from, upto) ==
    \E b \in (from.inst + 1)..upto :
        CronMatches(expr, b + UtcOffset(from.tz))

\* The cursor _should_run starts from: the entry of last_run, or the epoch
\* in the job's zone.
CursorOf(config) ==
    IF config.workflow \in DOMAIN last_run
    THEN last_run[config.workflow]
    ELSE DateTime(0, config.timezone)

\* C1: whenever the Runner call of a fired job raises, the scheduler sets
\* that job's cursor to the current time.
C1_CursorAdvancesOnFailure ==
    [][(spc = "job" /\ rpc = "raised" /\ LoopStep)
          => /\ CurrentJob.workflow \in DOMAIN last_run'
             /\ last_run'[CurrentJob.workflow].inst = clock]_vars

HoldsEnvelopeOf(file, mapping) ==
    /\ file.kind = "json"
    /\ file.doc.t = "object"
    /\ DOMAIN file.doc.v = {"version", "data"}
    /\ file.doc.v["version"] = JNumber(1)
    /\ file.doc.v["data"].t = "object"
    /\ JsonLoad(file.doc.v["data"]) = mapping

DueCheckRaises ==
    /\ spc = "for"
    /\ idx <= Len(jobs)
    /\ should_run(jobs, last_run, CurrentJob.workflow, now) \notin {"True", "False"}
C4_FailureIsolation ==
    [][ /\ (((spc = "job" /\ rpc = "raised") \/ DueCheckRaises) /\ LoopStep)
           => /\ spc' = "for"
              /\ idx' = idx + 1
              /\ running' = running
              /\ jobs' = jobs
              /\ last_run' = last_run
              /\ now' = now
        /\ spc' = "finally" => ~running' ]_vars

\* The first job of the tick failed (its state file is not JSON) and the
\* second job of the same tick has been fired.
C4_Witness ==
    /\ spc = "job"
    /\ idx = 2
    /\ jobs[1].workflow = "fireflies_ingest"
    /\ files["fireflies_ingest"] = Garbage
    /\ "fireflies_ingest" \notin DOMAIN last_run
    /\ rpc = "invoke"

\* A Runner.run call is in progress or has just ended.
InRun == rpc # "idle"

\* C5: no step of a dry-run Runner.run, and no step of the workflow it
\* invokes, changes the workflow's state file, whatever is returned and
\* whether the run ends by returning or by raising.
C5_DryRunPurity ==
    [][(InRun /\ ctx.dry_run)
          => files'[ctx.workflow] = files[ctx.workflow]]_vars

\* A dry run has returned, the workflow's mapping differs from the state it
\* was given, and the state file holds what it held.
C5_Witness ==
    /\ rpc = "returned"
    /\ ctx.dry_run
    /\ new_state # state
    /\ HoldsEnvelopeOf(files[ctx.workflow], state)

\* C6: a run whose workflow cannot be resolved raises before load_state or
\* save_state is called; when no module of that name exists the error is the
\* "not found" RuntimeError, which no other step raises.
C6_UnknownWorkflow ==
    (InRun /\ ctx.workflow \notin ModulesWithRun)
       => /\ rpc \in {"resolve", "raised"}
          /\ "load_state" \notin Range(events)
          /\ "save_state" \notin Range(events)
          /\ (rpc = "raised" /\ ctx.workflow \notin ImportableModules)
                => exc = "RuntimeError: not found"
          /\ (rpc = "raised" /\ ctx.workflow \in ImportableModules)
                => exc = "RuntimeError: no run function"

C6_Witness ==
    /\ rpc = "raised"
    /\ ctx.workflow = "ghost"
    /\ exc = "RuntimeError: not found"
    /\ events = <<"resolve">>

\* A state file that exists and is no envelope: not JSON, no object, or an
\* object without `version` or without `data`.
Corrupt(file) ==
    \/ file.kind = "garbage"
    \/ /\ file.kind = "json"
       /\ \/ file.doc.t # "object"
          \/ ~({"version", "data"} \subseteq DOMAIN file.doc.v)

\* C7: while the workflow's state file is corrupt, a run gets no further
\* than load_state, which raises: the workflow's run is not invoked,
\* save_state is not called, and the file stays as it is.
C7_CorruptStateNotExecuted ==
    [][(InRun /\ Corrupt(files[ctx.workflow]))
          => /\ files'[ctx.workflow] = files[ctx.workflow]
             /\ rpc = "resolve" => rpc' = "load"
             /\ rpc = "load" => (rpc' = "raised" /\ exc' # "")
             /\ rpc = "raised" => rpc' = "idle"
             /\ rpc \in {"resolve", "load", "raised"}
             /\ "run" \notin Range(events')
             /\ "save_state" \notin Range(events')]_vars

C7_Witness ==
    /\ rpc = "raised"
    /\ Corrupt(files[ctx.workflow])
    /\ events = <<"resolve", "load_state">>
    /\ exc \in {"JSONDecodeError", "ValueError"}

\* C8: when the workflow has returned a value that is no dict, the next
\* step of the run raises; the value is not replaced, save_state has not
\* been called and the state file and temp file are as they were.
C8_NonMappingReturn ==
    [][(rpc = "validate" /\ new_state.t # "dict")
          => /\ rpc' = "raised"
             /\ exc' = "RuntimeError: non-dict state"
             /\ new_state' = new_state
             /\ "save_state" \notin Range(events')
             /\ files' = files
             /\ tmp' = tmp]_vars

C8_Witness ==
    /\ rpc = "raised"
    /\ exc = "RuntimeError: non-dict state"
    /\ new_state = PyCoroutine
    /\ "save_state" \notin Range(events)

\* C9: Runner.run has returned only after resolve, load, run and validation
\* each took place once, in this order, with a dict returned and, when not a
\* dry run, save_state called and the state file holding the returned
\* mapping; and every exception set by a step leaves the call raised.
C9_NeverSwallows ==
    /\ rpc = "returned"
          => /\ exc = ""
             /\ ctx.workflow \in ModulesWithRun
             /\ new_state.t = "dict"
             /\ SelectSeq(events, LAMBDA e : e # "save_state")
                   = <<"resolve", "load_state", "run", "validate">>
             /\ ~ctx.dry_run
                   => /\ events[Len(events)] = "save_state"
                      /\ HoldsEnvelopeOf(files[ctx.workflow], new_state)
    /\ exc # "" <=> rpc = "raised"

C9_Witness ==
    /\ rpc = "returned"
    /\ ~ctx.dry_run
    /\ HoldsEnvelopeOf(files[ctx.workflow], new_state)
    /\ new_state # state

\* C10: whenever Runner.run has raised, a log record of the run carries the
\* run identifier and the workflow name.
C10_FailureLogged ==
    rpc = "raised"
       => \E r \in log : r.run_id = ctx.run_id /\ r.workflow = ctx.workflow

\* A direct save_state call has returned / has raised.
SaveReturned == call.op = "save_state" /\ call.pc = "done" /\ call.result.ok
SaveRaised == call.op = "save_state" /\ call.pc = "done" /\ ~call.result.ok
LoadDone == call.op = "load_state" /\ call.pc = "done"

\* C11: after save_state(workflow, M) has returned, load_state(workflow)
\* returns exactly M, whatever the file held before and however many calls
\* came before; and a load_state call that finds the envelope of a mapping
\* json can encode returns that mapping.
C11_SaveLoadRoundTrip ==
    /\ SaveReturned
          => load_state(files[call.workflow]) = Returned(call.data)
    /\ LoadDone
          => \A m \in StoreData :
                (JsonSerializable(m) /\ files[call.workflow] = Envelope(m))
                   => call.result = Returned(m)

\* The third call is a load_state that returns a mapping with a None, a
\* list and a dict in it, which only an earlier save_state can have stored.
C11_Witness ==
    /\ LoadDone
    /\ call.n = 3
    /\ call.result =
          Returned(PyDict([cursor |-> PyNone, items |-> PyList, meta |-> EmptyDict]))

\* C12: no step of a save_state call that fails -- in mkdir, in opening or
\* writing the temp file, in encoding a value json cannot encode, or in the
\* rename -- changes a state file: load_state returns after the failed call
\* what it returned before it, the persisted mapping or {} when there is no
\* file.
C12_FailedSaveKeepsState ==
    [][ (call.op = "save_state" /\ ~(call'.pc = "done" /\ call'.result.ok))
          => /\ files' = files
             /\ \A w \in StoreWorkflows :
                   load_state(files'[w]) = load_state(files[w]) ]_vars

\* A save_state of a mapping json cannot encode has raised, and the state
\* file still holds the envelope of another mapping.
C12_Witness ==
    /\ SaveRaised
    /\ call.result.exc = "TypeError"
    /\ \E m \in Mappings : files[call.workflow] = Envelope(m)

\* C13: at every point of a save_state call, and after the calling process
\* has died at any step of it, no state file is a partly written document:
\* a state file changes in one step only, from what it held to the complete
\* envelope of the data argument of the call; content written in part is
\* found in the temp file only.
C13_NoHalfWrittenStateFile ==
    [][ \A w \in Workflows :
          /\ files[w].kind # "partial"
          /\ files'[w].kind # "partial"
          /\ files'[w] # files[w]
                => /\ call.op = "save_state"
                   /\ w = call.workflow
                   /\ JsonSerializable(call.data)
                   /\ files'[w] = Envelope(call.data) ]_vars

\* The caller has died while the temp file was written: the temp file is
\* left written in part, next to a state file that holds a complete
\* envelope.
C13_Witness ==
    /\ call.op = "none"
    /\ call.n > 0
    /\ \E w \in StoreWorkflows :
          /\ tmp[w] = Partial
          /\ \E m \in Mappings : files[w] = Envelope(m)

\* C14: each step of save_state from opening the temp file to the rename
\* either does its work (the temp file is opened; the envelope is written
\* to it in full; it is renamed over the state file) or ends the call with
\* the exception raised to the caller and without a temp file of that
\* workflow left.
C14_TempCleanup ==
    [][ ( /\ call.op = "save_state"
          /\ call.pc \in {"open", "dump", "rename"}
          /\ call'.op = "save_state"
          /\ call'.n = call.n )
        => LET w == call.workflow IN
           \/ call'.pc = "dump" /\ tmp'[w] = Partial
           \/ call'.pc = "rename" /\ tmp'[w] = Envelope(call.data)
           \/ /\ call'.pc = "done"
              /\ call'.result.ok
              /\ files'[w] = Envelope(call.data)
              /\ tmp'[w] = Absent
           \/ /\ call'.pc = "done"
              /\ ~call'.result.ok
              /\ call'.result.exc \in {"OSError", "TypeError"}
              /\ tmp'[w] = Absent ]_vars

\* The temp write or the rename of a save_state call has failed: the call
\* has raised, no state file exists and the temp file of the workflow is
\* gone; the temp file of the other workflow, left by a caller that died,
\* is still there.
C14_Witness ==
    /\ SaveRaised
    /\ call.result = Raised("OSError", TRUE)
    /\ tmp[call.workflow] = Absent
    /\ files = AllAbsent
    /\ \E w \in StoreWorkflows : tmp[w] = Partial

\* C15: a load_state call on a state file that exists and is not JSON, is
\* JSON and no object, or is an object without `version` or without `data`
\* raises (JSONDecodeError or ValueError); it returns nothing, {} included.
C15_CorruptStateRaises ==
    (LoadDone /\ Corrupt(files[call.workflow]))
       => /\ ~call.result.ok
          /\ call.result.exc \in {"JSONDecodeError", "ValueError"}
          /\ call.result # Returned(EmptyDict)

\* load_state has raised ValueError on an object that has `version` and no
\* `data`.
C15_Witness ==
    /\ LoadDone
    /\ files[call.workflow] = JsonFile(JObject([version |-> JNumber(1)]))
    /\ call.result = Raised("ValueError", FALSE)

\* A state file that is an object with `version` and `data` whose version
\* is not the integer 1.
UnrecognizedVersion(file) ==
    /\ file.kind = "json"
    /\ file.doc.t = "object"
    /\ {"version", "data"} \subseteq DOMAIN file.doc.v
    /\ file.doc.v["version"] # JNumber(1)

\* C16: a load_state call on an envelope whose version is not 1 raises, as
\* it does on an object without `version`; it does not return the data of
\* that envelope.
C16_UnrecognizedVersionRaises ==
    (LoadDone /\ UnrecognizedVersion(files[call.workflow]))
       => /\ ~call.result.ok
          /\ call.result.exc = "ValueError"

\* C17: when a Runner.run that is no dry run returns, the workflow's state
\* file holds the envelope of exactly the mapping the workflow returned,
\* with no key of the mapping stored before that the workflow did not
\* return; and no step of a run changes the state file of another
\* workflow.
C17_WholeStateReplacement ==
    [][ /\ (rpc' = "returned" /\ ~ctx'.dry_run)
           => /\ HoldsEnvelopeOf(files'[ctx'.workflow], new_state')
              /\ load_state(files'[ctx'.workflow]) = Returned(new_state')
        /\ InRun
           => \A w \in Workflows \ {ctx.workflow} : files'[w] = files[w] ]_vars

\* A run was given {count: 2, seen: 1}, the workflow returned {count: 1},
\* and the file holds {count: 1}; another workflow's state file exists.
C17_Witness ==
    /\ rpc = "returned"
    /\ ~ctx.dry_run
    /\ state = PyDict([count |-> PyInt(2), seen |-> PyInt(1)])
    /\ new_state = PyDict([count |-> PyInt(1)])
    /\ files[ctx.workflow] = Envelope(new_state)
    /\ \E w \in Workflows \ {ctx.workflow} : files[w] # Absent

\* The exceptions of Runner.run raised before save_state is reached: by the
\* resolution, by load_state, by the workflow, by the validation.
PreSaveErrors ==
    {"RuntimeError: not found", "RuntimeError: no run function",
     "JSONDecodeError", "ValueError", "WorkflowError",
     "RuntimeError: non-dict state"}

\* C18: a state file changes only in a step of a run of that workflow that
\* is no dry run, in which the workflow has returned a dict, and the file
\* then holds the envelope of that dict; such a step is a save_state of the
\* run, and a run that raises in resolution, load, invocation or
\* validation has made no save_state, so it leaves the file as it was.
C18_StateChangesOnlyOnSuccess ==
    [][ /\ \A w \in Workflows :
             files'[w] # files[w]
                => /\ InRun
                   /\ w = ctx.workflow
                   /\ ~ctx.dry_run
                   /\ new_state'.t = "dict"
                   /\ files'[w] = Envelope(new_state')
                   /\ "save_state" \in Range(events')
        /\ (rpc' = "raised" /\ exc' \in PreSaveErrors)
             => "save_state" \notin Range(events') ]_vars

\* The second run of a workflow has raised in the validation; the state
\* file holds what the first run saved and the second run loaded.
C18_Witness ==
    /\ rpc = "raised"
    /\ exc = "RuntimeError: non-dict state"
    /\ cli_runs = 2
    /\ state = PyDict([count |-> PyInt(1)])
    /\ files[ctx.workflow] = Envelope(state)

\* C19: in the scheduler process a Runner call is in progress only while
\* the for loop stands at the job it was started for: the loop takes no
\* step of its own (no due-check, no start of another job, no sleep) until
\* the call has returned or raised; and a job is started no earlier than
\* the tick time and than the return of every job before it in the
\* registry.
C19_SequentialExecution ==
    /\ InRun
          => /\ spc = "job"
             /\ idx \in 1..Len(jobs)
             /\ ctx.workflow = CurrentJob.workflow
             /\ ctx.started_at.inst >= now.inst
             /\ \A i \in 1..(idx - 1) :
                   jobs[i].workflow \in DOMAIN last_run
                      => last_run[jobs[i].workflow].inst <= ctx.started_at.inst
    /\ spc \in {"constructed", "while", "for", "sleep", "finally", "stopped"}
          => rpc = "idle"

\* The first job of the tick took a minute: its cursor is later than the
\* tick time, and the second job, due at the same tick, was started only
\* then.
C19_Witness ==
    /\ spc = "job"
    /\ idx = 2
    /\ rpc = "invoke"
    /\ jobs[1].workflow \in DOMAIN last_run
    /\ last_run[jobs[1].workflow].inst > now.inst
    /\ ctx.started_at.inst > now.inst

\* C20: while Scheduler.run is in its loop with the running flag cleared by
\* a handled signal, no Runner call is started: not for the jobs that are
\* left in the tick, not in a later tick.
C20_ShutdownBetweenJobs ==
    [][ (~running /\ spc \in {"while", "for", "job", "sleep"})
          => ~(rpc = "idle" /\ rpc' = "resolve") ]_vars

\* Scheduler.run is inside its try block.
InLoop == spc \in {"while", "for", "job", "sleep"}

\* C21: a handled signal changes the running flag and nothing else; a
\* Runner call in flight when the flag is cleared goes on, step by step, to
\* its return or raise; with the flag cleared no tick begins; and, the
\* Runner calls returning, run() comes to its end with the PID file
\* removed.
C21_GracefulShutdown ==
    /\ [][ /\ (running /\ ~running')
               => UNCHANGED <<runnerVars, storeVars, spc, idx, now, pid_file,
                              jobs, last_run>>
           /\ (~running /\ spc = "job" /\ rpc \notin {"returned", "raised"})
               => /\ spc' = "job"
                  /\ ctx' = ctx
                  /\ rpc' \notin {"idle", "resolve"}
           /\ (~running /\ spc = "while") => spc' # "for" ]_vars
    /\ (~running /\ InLoop) ~> (spc = "stopped" /\ ~pid_file)

\* The flag is cleared and the Runner call of the job has come to its
\* return and has saved its state.
C21_Witness ==
    /\ ~running
    /\ spc = "job"
    /\ rpc = "returned"
    /\ HoldsEnvelopeOf(files[ctx.workflow], new_state)
    /\ pid_file

\* C22: the PID file exists at every point of run() between its first loop
\* test and its finally clause, so during every tick and every Runner
\* call, and it does not exist when run() has returned, be it after a
\* signal or after an error caught by the handler of the loop.
C22_PidMarker ==
    /\ (InLoop \/ spc = "finally") => pid_file
    /\ InRun => pid_file
    /\ spc = "stopped" => ~pid_file

\* run() has returned after an error of the loop (the running flag is
\* still set), a job has run before, and the PID file is gone.
C22_Witness ==
    /\ spc = "stopped"
    /\ running
    /\ last_run # <<>>
    /\ ~pid_file

\* C23: the registry never holds two configs of one workflow name; a
\* register_job call leaves the registry with the names it had and the
\* registered one, with the registered cron expression and timezone under
\* that name and every other name's config as it was; and nothing else
\* changes the registry.
C23_RegistrationLastWins ==
    [][ /\ \A i, j \in 1..Len(jobs') :
              jobs'[i].workflow = jobs'[j].workflow => i = j
        /\ registrations' # registrations
              => \E c \in RegistrationInputs :
                    /\ JobNames(jobs') = JobNames(jobs) \cup {c.workflow}
                    /\ JobConfig(jobs', c.workflow) = c
                    /\ \A w \in JobNames(jobs) \ {c.workflow} :
                          JobConfig(jobs', w) = JobConfig(jobs, w)
        /\ registrations' = registrations => jobs' = jobs ]_vars

\* fireflies_ingest, registered by the constructor, has been registered
\* again: the registry holds one config, the later one.
C23_Witness ==
    /\ registrations = 1
    /\ jobs = <<SchedulerConfig("fireflies_ingest", "*/2 * * * *", "Asia/Kathmandu")>>

\* C24: when the run of an `async def` workflow has been invoked, the
\* Runner holds the mapping the workflow computes (or the run has raised
\* the workflow's own error), and the run goes on as for any workflow: it
\* is never failed for a return value that is no mapping.
C24_AsyncWorkflowCompletes ==
    (InRun /\ ctx.workflow \in AsyncWorkflows /\ "run" \in Range(events))
       => /\ new_state.t = "dict" \/ exc = "WorkflowError"
          /\ exc # "RuntimeError: non-dict state"

\* C25: no state file changes in the step in which the workflow body is
\* executed, and the only step of a run that changes a state file is the
\* rename of the Runner's own save, made after the body has returned.
C25_NoDirectStoreAccess ==
    [][ /\ rpc = "invoke" => files' = files
        /\ (InRun /\ files' # files) => rpc = "save_rename" ]_vars

\* The exceptions Runner.run raises.
RunnerErrors == PreSaveErrors \cup {"OSError"}

\* C26: a `run` process ends with status 1 when the --arg list is
\* malformed and when Runner.run has raised (workflow not found or without
\* run, state file corrupt, error of the workflow, return value that is no
\* dict, error of the save), and with status 0 when Runner.run has
\* returned; it ends in no other way.
C26_CliExitCode ==
    [][ /\ (cpc = "run" /\ cpc' = "exited")
              => /\ rpc \in {"returned", "raised"}
                 /\ rpc = "returned" => (exc = "" /\ exit_code' = 0)
                 /\ rpc = "raised" => (exc \in RunnerErrors /\ exit_code' = 1)
        /\ (cli_runs' # cli_runs /\ cpc' = "exited") => exit_code' = 1
        /\ (cli_runs' # cli_runs /\ cpc' = "run") => exit_code' = exit_code
        /\ (cpc = "run" /\ rpc \in {"returned", "raised"}) => cpc' = "exited" ]_vars

\* The second process has ended with status 1; a state file holds what the
\* first one saved.
C26_Witness ==
    /\ cpc = "exited"
    /\ cli_runs = 2
    /\ exit_code = 1
    /\ \E w \in Workflows : files[w] = Envelope(PyDict([count |-> PyInt(1)]))

\* C27: a `run` process whose --arg list has an item without "=" ends at
\* once with status 1: no Runner call is made, no state file or temp file
\* is read or written; a process that calls the Runner has a context whose
\* args are those of a well-formed list: none, or for `k=v k=a=b` the one
\* key k with the value a=b (the later item, all that follows its first
\* "=").
C27_MalformedArgsFailFast ==
    [][ cli_runs' # cli_runs
          => \/ /\ cpc' = "exited"
                /\ exit_code' = 1
                /\ rpc' = "idle"
                /\ UNCHANGED <<runnerVars, storeVars>>
             \/ /\ cpc' = "run"
                /\ rpc' = "resolve"
                /\ ctx'.args \in {<<>>, <<"k">> :> <<"a", "=", "b">>}
                /\ ctx'.trigger = Trigger("manual", <<>>)
                /\ UNCHANGED storeVars ]_vars

\* The Runner has been called with args {k: a=b}.
C27_Witness ==
    /\ cpc = "run"
    /\ rpc = "resolve"
    /\ ctx.args = (<<"k">> :> <<"a", "=", "b">>)

\* C28: from the call of the Runner to its end, the workflow name, the run
\* id, the args and the dry-run flag of the context stay what they were
\* when the context was created, whatever the body does with the context.
C28_ContextImmutable ==
    [][(InRun /\ InRun')
          => /\ ctx'.workflow = ctx.workflow
             /\ ctx'.run_id = ctx.run_id
             /\ ctx'.args = ctx.args
             /\ ctx'.dry_run = ctx.dry_run]_vars

StepsOfRun == <<"resolve", "load_state", "run", "validate", "save_state">>

\* C29: in a scheduled run the steps come in the order due-check, context
\* construction, state load, workflow invocation, state save, cursor
\* update: the Runner is called with a scheduled context right after a
\* due-check that said True; the events of the call are a prefix of
\* resolve, load_state, run, validate, save_state; a state file changes
\* only after the workflow has returned; the cursor moves only when the
\* Runner call has returned.
C29_StepOrder ==
    [][ /\ (spc = "for" /\ spc' = "job")
              => /\ due' = "True"
                 /\ rpc' = "resolve"
                 /\ ctx'.trigger.type = "scheduled"
                 /\ events' = <<>>
        /\ spc' = "job"
              => /\ Len(events') <= Len(StepsOfRun)
                 /\ events' = SubSeq(StepsOfRun, 1, Len(events'))
        /\ (spc = "job" /\ files' # files)
              => rpc \notin {"resolve", "load", "invoke"}
        /\ last_run' # last_run
              => /\ spc = "job"
                 /\ rpc = "returned"
                 /\ "run" \in Range(events) ]_vars

\* C30: no retry within a tick.  A tick starts at the loop test with the
\* first job and ends at the sleep; in between the position in the job list
\* only moves forward, one job at a time: a job is due-checked once, a
\* Runner call is started only by that due-check, its body is invoked at
\* most once, and when the call ends, by returning or by raising, the loop
\* goes on to the next job; the list is not walked again before the sleep
\* and the next loop test.
C30_NoRetryWithinTick ==
    [][ /\ idx' # idx
              => \/ spc = "while" /\ idx' = 1
                 \/ spc \in {"for", "job"} /\ idx' = idx + 1
        /\ (spc = "for" /\ idx <= Len(jobs) /\ spc' # spc)
              => spc' = "job" /\ idx' = idx /\ rpc' = "resolve"
        /\ (spc = "for" /\ idx <= Len(jobs) /\ spc' = spc /\ idx' = idx)
              => UNCHANGED <<due, runnerVars, last_run>>
        /\ (spc = "for" /\ idx > Len(jobs)) => spc' \in {"for", "sleep"}
        /\ (spc = "job" /\ spc' = "job")
              => /\ idx' = idx
                 /\ rpc' = "resolve" => rpc = "resolve"
                 /\ Cardinality({i \in 1..Len(events') : events'[i] = "run"}) <= 1
        /\ (spc = "job" /\ spc' # "job")
              => /\ rpc \in {"returned", "raised"}
                 /\ spc' = "for"
                 /\ idx' = idx + 1
        /\ (spc # "for" /\ spc' = "for") => spc \in {"while", "job"}
        /\ InLoop => jobs' = jobs ]_vars

\* The first of two jobs was due and its run failed (no cursor); the loop
\* is at the second job of the same tick.
C30_Witness ==
    /\ spc = "for"
    /\ Len(jobs) = 2
    /\ idx = 2
    /\ due = "True"
    /\ rpc = "idle"
    /\ jobs[1].workflow \notin DOMAIN last_run

\* C31: a registered job without a cursor entry is due-checked as a job
\* whose cursor is the epoch in its zone; so whenever its expression has a
\* fire time between the epoch and the tick time it is due, whether or not
\* the tick time is itself a fire time.
C31_NeverRunDueFromEpoch ==
    (spc = "checked" /\ last_run = <<>>)
       => LET config == JobConfig(jobs, "example")
          IN /\ due = should_run(jobs,
                                 SetCursor(<<>>, "example", EpochIn(config.timezone)),
                                 "example", now)
             /\ ( /\ config.timezone \in KnownZones
                  /\ config.cron_expression \in ValidCrons
                  /\ FireTimeBetween(config.cron_expression,
                                     EpochIn(config.timezone), now.inst) )
                => due = "True"

\* A never-run hourly job is found due at 00:16, which is no fire time.
C31_Witness ==
    /\ spc = "checked"
    /\ last_run = <<>>
    /\ JobConfig(jobs, "example") = SchedulerConfig("example", "0 * * * *", "UTC")
    /\ now.inst = NewYear2024 + 16
    /\ due = "True"

\* C32: the context of every scheduled Runner call names the job the loop
\* stands at, has trigger type scheduled, params with the expression and
\* the zone of that job's registration and the trigger time written with
\* that zone's wall clock and offset, a start time in that zone not before
\* the tick time, no args and dry_run false; and when such a call has
\* returned, the state file holds the envelope of the returned mapping.
C32_ScheduledContextShape ==
    spc = "job"
       => /\ ctx.workflow = CurrentJob.workflow
          /\ ctx.trigger.type = "scheduled"
          /\ DOMAIN ctx.trigger.params = {"schedule", "triggered_at", "timezone"}
          /\ ctx.trigger.params.schedule = CurrentJob.cron_expression
          /\ ctx.trigger.params.timezone = CurrentJob.timezone
          /\ ctx.trigger.params.triggered_at.utcoffset = UtcOffset(CurrentJob.timezone)
          /\ ctx.trigger.params.triggered_at.wall
                = ctx.started_at.inst + UtcOffset(CurrentJob.timezone)
          /\ ctx.started_at.tz = CurrentJob.timezone
          /\ ctx.started_at.inst >= now.inst
          /\ ctx.started_at.inst <= clock
          /\ ctx.args = <<>>
          /\ ~ctx.dry_run
          /\ rpc = "returned"
                => /\ "save_state" \in Range(events)
                   /\ HoldsEnvelopeOf(files[CurrentJob.workflow], new_state)

\* The run of a job re-registered in Asia/Kathmandu has returned and its
\* state is saved.
C32_Witness ==
    /\ spc = "job"
    /\ rpc = "returned"
    /\ CurrentJob = SchedulerConfig("fireflies_ingest", "*/2 * * * *", "Asia/Kathmandu")
    /\ ctx.trigger.params.triggered_at.utcoffset = 5 * 60 + 45
    /\ HoldsEnvelopeOf(files["fireflies_ingest"], new_state)

\* Some instant after `from` and not after `upto` at which the wall clock of
\* the job's registered zone matches the job's expression.
JobFireTimeBetween(config, from, upto) ==
    \E b \in (from + 1)..upto :
        CronMatches(config.cron_expression, b + UtcOffset(config.timezone))

\* C33: the fire times of a job are the instants at which the wall clock of
\* its registered zone matches its expression: a job is fired at a tick only
\* if such an instant lies after its cursor (the epoch when it never ran)
\* and at or before the tick time, and a job found not due has no such
\* instant.
C33_CronInJobZone ==
    /\ spc = "job"
          => JobFireTimeBetween(CurrentJob, CursorOf(CurrentJob).inst, now.inst)
    /\ (spc = "for" /\ idx > 1 /\ due = "False")
          => ~JobFireTimeBetween(jobs[idx - 1], CursorOf(jobs[idx - 1]).inst,
                                 now.inst)

\* C34: a finished load_state call has returned a mapping or has raised:
\* with no state file it returned {} and created no file, with the envelope
\* of a mapping it returned that mapping, and it never returned a value that
\* is no mapping (as the data of an envelope can be).
C34_LoadReturnsMappingOrFails ==
    LoadDone
       => /\ files[call.workflow] = Absent
                => call.result = Returned(EmptyDict)
          /\ \A m \in StoreData :
                (JsonSerializable(m) /\ files[call.workflow] = Envelope(m))
                   => call.result = Returned(m)
          /\ call.result.ok => call.result.value.t = "dict"

\* At least two fire times of the expression, read in the zone of `from`,
\* lie after `from` and not after the instant `upto`.
TwoFireTimesBetween(expr, from, upto) ==
    \E b \in (from.inst + 1)..upto :
        /\ CronMatches(expr, b + UtcOffset(from.tz))
        /\ FireTimeBetween(expr, DateTime(b, from.tz), upto)

\* C35: a job for which two or more fire times have elapsed since its
\* cursor (the epoch at first start) is fired at the tick by one Runner
\* call; when that call has returned the cursor moves to a time not before
\* the tick time, so no fire time up to the tick time is left after it; and
\* a job that has a cursor is fired only for a fire time after that cursor.
C35_MissedBoundariesCoalesce ==
    [][ /\ ( /\ spc = "for"
             /\ idx <= Len(jobs)
             /\ LoopStep
             /\ CurrentJob.timezone \in KnownZones
             /\ CurrentJob.cron_expression \in ValidCrons
             /\ TwoFireTimesBetween(CurrentJob.cron_expression,
                                    CursorOf(CurrentJob), now.inst) )
              => /\ spc' = "job"
                 /\ rpc' = "resolve"
                 /\ ctx'.workflow = CurrentJob.workflow
        /\ (spc = "job" /\ rpc = "returned" /\ LoopStep)
              => /\ CurrentJob.workflow \in DOMAIN last_run'
                 /\ last_run'[CurrentJob.workflow].inst >= now.inst
                 /\ ~FireTimeBetween(CurrentJob.cron_expression,
                                     last_run'[CurrentJob.workflow], now.inst)
                 /\ spc' = "for"
                 /\ idx' = idx + 1
        /\ ( /\ spc = "for"
             /\ spc' = "job"
             /\ CurrentJob.workflow \in DOMAIN last_run )
              => FireTimeBetween(CurrentJob.cron_expression,
                                 last_run[CurrentJob.workflow], now.inst) ]_vars

\* Two fire times had elapsed since the cursor of a job when it was
\* due-checked; it was fired and its one Runner call has returned.
C35_Witness ==
    /\ spc = "job"
    /\ rpc = "returned"
    /\ CurrentJob.workflow \in DOMAIN last_run
    /\ TwoFireTimesBetween(CurrentJob.cron_expression,
                           last_run[CurrentJob.workflow], now.inst)

\* C36: the cursor map changes only in the step of the scheduler that
\* follows the return of a job's own Runner call, and then only that job's
\* entry is written, with the time of that step; no entry is ever removed or
\* moved to an earlier instant; and every entry belongs to a registered job.
C36_CursorFrame ==
    [][ /\ last_run' # last_run
              => /\ spc = "job"
                 /\ rpc = "returned"
                 /\ ctx.workflow = CurrentJob.workflow
                 /\ DOMAIN last_run' = DOMAIN last_run \cup {CurrentJob.workflow}
                 /\ last_run'[CurrentJob.workflow].inst = clock
                 /\ \A w \in DOMAIN last_run \ {CurrentJob.workflow} :
                       last_run'[w] = last_run[w]
        /\ \A w \in DOMAIN last_run :
              /\ w \in DOMAIN last_run'
              /\ last_run'[w].inst >= last_run[w].inst
        /\ DOMAIN last_run' \subseteq JobNames(jobs') ]_vars

\* Both of two jobs have fired, the first of them at a later time than the
\* second: their cursors differ.
C36_Witness ==
    /\ Len(jobs) = 2
    /\ DOMAIN last_run = JobNames(jobs)
    /\ last_run[jobs[1].workflow].inst > last_run[jobs[2].workflow].inst

\* C37: when the Runner call of a fired job has returned, the job's cursor
\* is set to the time of the return, in the job's zone; that time is not
\* before the time the run started, which is not before the tick time; and
\* a job with a cursor is fired only when the first fire time after the
\* cursor has come, so a fire time that passed during the job's own run,
\* which is not after the cursor, brings no fire.
C37_CursorIsCompletionTime ==
    [][ /\ (spc = "job" /\ rpc = "returned" /\ LoopStep)
              => /\ last_run'[CurrentJob.workflow]
                       = DateTime(clock, CurrentJob.timezone)
                 /\ clock >= ctx.started_at.inst
                 /\ ctx.started_at.inst >= now.inst
        /\ (spc' = "job" /\ CurrentJob'.workflow \in DOMAIN last_run')
              => LET cursor == last_run'[CurrentJob'.workflow]
                     next_run == CronGetNext(CurrentJob'.cron_expression, cursor)
                 IN /\ next_run.inst > cursor.inst
                    /\ next_run.inst <= now'.inst ]_vars

\* The run of a job that fires every second minute has returned one
\* minute after it started, at a fire time of the job.
C37_Witness ==
    /\ spc = "job"
    /\ rpc = "returned"
    /\ CurrentJob.cron_expression = "*/2 * * * *"
    /\ clock > ctx.started_at.inst
    /\ CronMatches("*/2 * * * *", clock + UtcOffset(CurrentJob.timezone))

\* C38: a temp file left behind by a process that died inside save_state
\* does no harm.  load_state returns what the state file gives, whatever the
\* temp file holds, and touches no file.  A save_state call that finds the
\* temp file opens it anew (its old content is gone) unless the filesystem
\* reports an error, and that error is the only one the step can raise.  A
\* save_state call that returns has renamed its own envelope over the
\* state file and leaves no temp file.
C38_StaleTempHarmless ==
    [][ /\ (call'.op = "load_state" /\ call'.n # call.n)
              => /\ call'.result = load_state(files[call'.workflow])
                 /\ UNCHANGED storeVars
        /\ (call.pc = "open" /\ call' # call /\ call'.op = "save_state")
              => \/ /\ call'.pc = "dump"
                    /\ tmp'[call.workflow] = Partial
                    /\ files' = files
                 \/ /\ call'.pc = "done"
                    /\ call'.result = Raised("OSError", TRUE)
                    /\ tmp'[call.workflow] = Absent
                    /\ files' = files
        /\ (call.pc = "rename" /\ call'.pc = "done" /\ call'.result.ok)
              => /\ files'[call.workflow] = Envelope(call.data)
                 /\ tmp'[call.workflow] = Absent ]_vars

\* load_state has returned the mapping of the state file while a temp file
\* with another envelope, left by a process that died before the rename,
\* lies next to it.
C38_Witness ==
    /\ LoadDone
    /\ call.result.ok
    /\ \E m \in StoreData :
         /\ JsonSerializable(m)
         /\ tmp[call.workflow] = Envelope(m)
         /\ files[call.workflow] # Envelope(m)
         /\ files[call.workflow] # Absent
         /\ call.result.value # m

\* C39: between construction and run() the running flag is false, so a
\* signal handled there, which can only clear the flag, changes nothing;
\* run() sets the flag on entry, whatever came before; with the flag set
\* the loop test starts a tick; the flag is cleared only by a step that is
\* no step of the loop (a handled signal), and the loop is left through
\* its test only when the flag is cleared.
C39_EarlyShutdownOverwritten ==
    [][ /\ spc = "constructed"
              => /\ ~running
                 /\ spc' = "constructed" => UNCHANGED vars
        /\ (spc \in {"constructed", "stopped"} /\ spc' # spc)
              => /\ spc' = "while"
                 /\ running'
        /\ (spc = "while" /\ running /\ LoopStep)
              => /\ spc' = "for"
                 /\ idx' = 1
                 /\ running'
        /\ (running /\ ~running') => ~LoopStep
        /\ (spc = "while" /\ spc' = "finally") => ~running ]_vars

\* The first tick of run() has begun: the flag, false until run() was
\* entered, is set and the first job is about to be due-checked.
C39_Witness ==
    /\ spc = "for"
    /\ running
    /\ idx = 1
    /\ last_run = <<>>
    /\ now.inst = BootTime
    /\ pid_file

\* C40: register_job leaves the cursor map as it is; and a job that has a
\* cursor is found due exactly when an instant at which the wall clock of
\* its registered zone matches its registered expression lies after the
\* cursor and at or before the tick time, whether or not the job was
\* registered anew since the cursor was written.
C40_ReregistrationKeepsCursor ==
    [][ /\ registrations' # registrations => last_run' = last_run
        /\ ( /\ spc = "for"
             /\ idx <= Len(jobs)
             /\ LoopStep
             /\ CurrentJob.workflow \in DOMAIN last_run
             /\ CurrentJob.timezone \in KnownZones
             /\ CurrentJob.cron_expression \in ValidCrons )
              => (spc' = "job")
                    <=> JobFireTimeBetween(CurrentJob,
                                           last_run[CurrentJob.workflow].inst,
                                           now.inst) ]_vars

====
